---- MODULE Spec2Model ----
(***************************************************************************)
(* Model of the crawl-and-ingest pipeline of esg-policy-generator          *)
(* (src/crawl.py, src/db.py), of its fallback document store               *)
(* (src/simple_storage.py) and of its chunker (chunk_text in src/crawl.py).*)
(* Each of the three has its own specification: Spec and FairSpec for the  *)
(* crawl, StoreSpec for the store, the store selection and the retrieval   *)
(* that reads the store (retrieve_company_info in src/company_profile.py), *)
(* ChunkSpec and ChunkFairSpec for one call of chunk_text; the variables   *)
(* of the other two stay at their initial values.                          *)
(*                                                                         *)
(* crawl_parallel runs on one asyncio event loop.  Tasks are cooperative:  *)
(* a coroutine runs without interruption until it awaits something that    *)
(* really suspends.  In crawl.py the only awaits that reach the network    *)
(* are the two model calls (chat completion, embedding); requests.get is a *)
(* blocking call and insert_chunk contains no await.  Each action below is *)
(* therefore one such uninterrupted run of code between suspension points. *)
(*                                                                         *)
(* A URL is modelled by its index 1..urls in the URL list, 0 stands for    *)
(* None in last_processed_url, and <<>> stands for None in last_error.     *)
(***************************************************************************)
EXTENDS Integers, Sequences, FiniteSets, TLC

\* Bounds of the model.
MaxUrls == 2
MaxChunks == 2
MaxConcurrent == 2

\* Length of the fallback vector of get_embedding.
EMBED_DIM == 1536

VARIABLES
    urls,             \* argument: number of entries of the URL list
    api_key,          \* argument/environment: a credential is present
    max_concurrent,   \* argument
    status_callback,  \* argument: the kind of callback supplied
    store_available,  \* environment: chromadb or else the fallback store can be built
    pc,               \* position of crawl_parallel
    status,           \* the CrawlStatus object
    semaphore,        \* value of asyncio.Semaphore(max_concurrent)
    unit,             \* per URL: position and locals of its process_url task
    results,          \* per URL: what crawl_url returned
    fetched,          \* per URL: number of requests.get calls made for it
    page,             \* per URL: whether its fetch and normalisation raised
    lastChunk,        \* the latest run of the chunk loop's body: its add request, if any
    cbLog             \* the statuses the callback has been invoked with, in order

inputs == <<urls, api_key, max_concurrent, status_callback, store_available>>

\* State of the fallback document store (src/simple_storage.py) and of the
\* store selection (src/db.py).
VARIABLES
    dirs,             \* the directories that exist under ./simple_db
    docfiles,         \* the files under documents/: path -> text
    index,            \* index.pickle: the dict, as its entries in insertion order
    added,            \* the ids handed to add since the last reset
    ret,              \* the latest call on the store or the selection, and its result
    collection,       \* what the latest init_collection returned
    using_chromadb    \* st.session_state.using_chromadb

storeVars == <<dirs, docfiles, index, added, ret, collection, using_chromadb>>

\* State of one call of chunk_text (src/crawl.py).
VARIABLES
    text,             \* argument: the text, a sequence of characters
    chunk_size,       \* argument
    start,            \* local: the cursor
    chunks,           \* local: the list being built
    at                \* position: "idle", "while" (loop test) or "returned"

chunkVars == <<text, chunk_size, start, chunks, at>>

crawlVars == <<urls, api_key, max_concurrent, status_callback, store_available,
               pc, status, semaphore, unit, results, fetched, page, lastChunk,
               cbLog>>

vars == <<crawlVars, storeVars, chunkVars>>

\* No store has been built and nothing is on disk.
NoStore ==
    /\ dirs = {}
    /\ docfiles = <<>>
    /\ index = <<>>
    /\ added = {}
    /\ ret = [op |-> "none"]
    /\ collection = "none"
    /\ using_chromadb = "unset"

\* No call of chunk_text is under way.
NoChunking ==
    /\ text = <<>>
    /\ chunk_size = 1
    /\ start = 0
    /\ chunks = <<>>
    /\ at = "idle"

Units == 1..urls

(***************************************************************************)
(* CrawlStatus                                                             *)
(***************************************************************************)
CrawlStatus(total) ==
    [total_urls |-> total, processed_urls |-> 0, successful_urls |-> 0,
     failed_urls |-> 0, is_complete |-> FALSE, last_error |-> <<>>,
     last_processed_url |-> 0]

\* crawl_parallel with an empty URL list returns a default-constructed status.
EmptyCrawlResult == CrawlStatus(0)

\* Mutant of NoKeyResult: the early return forgets to mark the status complete.
NoKeyResult_Incomplete(st) ==
    [st EXCEPT !.last_error = <<"OpenAI API key not provided">>]

\* crawl_parallel without a credential.
NoKeyResult(st) ==
    [st EXCEPT !.last_error = <<"OpenAI API key not provided">>,
               !.is_complete = TRUE]

\* crawl_url, first statement of the try block.
MarkStarted(st, u) == [st EXCEPT !.last_processed_url = u]

\* Mutant of RecordSuccess: processed_urls is not incremented.
RecordSuccess_Uncounted(st) == [st EXCEPT !.successful_urls = @ + 1]

\* crawl_url, end of the try block.
RecordSuccess(st) ==
    [st EXCEPT !.successful_urls = @ + 1, !.processed_urls = @ + 1]

\* Mutant of RecordFailure: the error message is not recorded.
RecordFailure_NoMessage(st, u) ==
    [st EXCEPT !.failed_urls = @ + 1, !.processed_urls = @ + 1]

\* crawl_url, except block.
RecordFailure(st, u) ==
    [st EXCEPT !.last_error = <<"Error crawling", u>>,
               !.failed_urls = @ + 1, !.processed_urls = @ + 1]

\* crawl_parallel after gather.
MarkComplete(st) == [st EXCEPT !.is_complete = TRUE]

(***************************************************************************)
(* The status callback.  crawl_parallel calls it only `if status_callback`, *)
(* inside try/except Exception: an exception it raises is printed and       *)
(* dropped.  A callback is modelled by its kind: not supplied, one that     *)
(* returns, one that raises on every call.                                  *)
(***************************************************************************)
CallbackKinds == {"none", "returns", "raises"}

\* Mutant of CallbackOutcome: the call is not wrapped in try/except.
CallbackOutcome_Unguarded(cb) ==
    CASE cb = "none" -> "not called"
      [] cb = "returns" -> "returned"
      [] OTHER -> "escaped"

\* How one guarded call of the callback ends for its caller.
CallbackOutcome(cb) ==
    CASE cb = "none" -> "not called"
      [] cb = "returns" -> "returned"
      [] OTHER -> "caught"

\* The callback reads the status it is handed; cbLog keeps what it read.
Notify(log, st, cb) == IF cb = "none" THEN log ELSE Append(log, st)

(***************************************************************************)
(* The semaphore                                                           *)
(***************************************************************************)
\* Mutant of CanAcquire: units are admitted whatever the semaphore's value.
CanAcquire_Always(s) == TRUE

\* Mutant of CanAcquire: a unit is admitted when no slot is left.
CanAcquire_AtZero(s) == s >= 0

\* Mutant of Release: leaving the `async with` block gives no slot back.
Release_Leak(s) == s

CanAcquire(s) == s > 0
Acquire(s) == s - 1
Release(s) == s + 1

(***************************************************************************)
(* The model adapters                                                      *)
(***************************************************************************)
TitleResponses == {"json", "json_missing_key", "undecodable", "raises"}
EmbedResponses == {"vector", "raises"}
AddResponses == {"ok", "raises"}

\* get_title_and_summary: the decoded JSON of the model, whatever its keys,
\* or the sentinel pair when the call or the decoding raises.
get_title_and_summary(resp) ==
    CASE resp = "json" -> [title |-> "model title", summary |-> "model summary"]
      [] resp = "json_missing_key" -> [summary |-> "model summary"]
      [] OTHER -> [title |-> "Error processing title",
                   summary |-> "Error processing summary"]

\* Mutant of get_embedding: the fallback is an empty vector.
get_embedding_Empty(resp) ==
    IF resp = "vector" THEN [len |-> EMBED_DIM, values |-> "model"]
    ELSE [len |-> 0, values |-> "zeros"]

\* get_embedding: the model's vector, or [0] * 1536 when the call raises.
get_embedding(resp) ==
    IF resp = "vector" THEN [len |-> EMBED_DIM, values |-> "model"]
    ELSE [len |-> EMBED_DIM, values |-> "zeros"]

\* process_chunk reads extracted["title"] and extracted["summary"]: KeyError
\* when either is missing.
ProcessChunkRaises(extracted) ==
    ~ ({"title", "summary"} \subseteq DOMAIN extracted)

\* process_chunk: the ProcessedChunk of chunk i of u, unless reading the
\* title or the summary raises.
process_chunk(u, i, extracted, embResp) ==
    IF ProcessChunkRaises(extracted)
    THEN [raised |-> TRUE]
    ELSE [raised |-> FALSE, url |-> u, chunk_number |-> i,
          title |-> extracted.title, summary |-> extracted.summary,
          embedding |-> get_embedding(embResp)]

\* insert_chunk: one add of the store with id f"{url}_{chunk_number}" (here
\* the pair) and the chunk's embedding; an exception of add is caught and
\* printed, so the caller never learns whether the add succeeded.  The
\* document text and the metadata handed to add are not modelled.
insert_chunk(chunk, addResp) ==
    [raised |-> FALSE, id |-> <<chunk.url, chunk.chunk_number>>,
     embedding |-> chunk.embedding]

NoChunk == [url |-> 0]

\* Mutant of LoopBody: the loop has no try/except of its own.
LoopBody_NoTry(u, i, extracted, embResp, addResp) ==
    LET chunk == process_chunk(u, i, extracted, embResp) IN
    IF chunk.raised
    THEN [url |-> u, chunk_number |-> i, insert |-> "not attempted",
          escaped |-> TRUE]
    ELSE LET ins == insert_chunk(chunk, addResp) IN
         [url |-> u, chunk_number |-> i, insert |-> "attempted",
          escaped |-> ins.raised, id |-> ins.id, embedResp |-> embResp,
          embedding |-> ins.embedding]

\* The body of the for loop of process_and_store_document for chunk i of u,
\* after both model calls have returned: whether the store's add was called,
\* and with which id and embedding.  `escaped` says whether an exception
\* leaves the loop body: the loop's own try/except catches process_chunk's.
LoopBody(u, i, extracted, embResp, addResp) ==
    LET chunk == process_chunk(u, i, extracted, embResp) IN
    IF chunk.raised
    THEN [url |-> u, chunk_number |-> i, insert |-> "not attempted",
          escaped |-> FALSE]
    ELSE LET ins == insert_chunk(chunk, addResp) IN
         [url |-> u, chunk_number |-> i, insert |-> "attempted",
          escaped |-> ins.raised, id |-> ins.id, embedResp |-> embResp,
          embedding |-> ins.embedding]

(***************************************************************************)
(* Tasks                                                                   *)
(***************************************************************************)
Idle(p) == [pc |-> p, nchunks |-> 0, i |-> 0, extracted |-> <<>>]

\* What crawl_url's try block meets before the chunk loop: "ok", or "raises"
\* when requests.get, raise_for_status or html_to_markdown raises (all of them
\* land in the same except block).
FetchOutcomes == {"ok", "raises"}

\* init_collection: the chromadb collection or, when chromadb cannot be set up,
\* the fallback store; building the fallback happens inside the except block,
\* outside any try, so an exception there leaves init_collection.  Which of
\* the two stores is returned makes no difference to the crawl.
init_collection(available) == IF available THEN "collection" ELSE "raises"

Init ==
    /\ urls \in 0..MaxUrls
    /\ api_key \in BOOLEAN
    /\ max_concurrent \in 0..MaxConcurrent
    /\ status_callback \in CallbackKinds
    /\ store_available \in BOOLEAN
    /\ pc = "call"
    /\ status = CrawlStatus(0)
    /\ semaphore = 0
    /\ unit = [u \in Units |-> Idle("new")]
    /\ results = [u \in Units |-> "pending"]
    /\ fetched = [u \in Units |-> 0]
    /\ page = [u \in Units |-> "none"]
    /\ lastChunk = NoChunk
    /\ cbLog = <<>>
    /\ NoStore
    /\ NoChunking

\* No crawl is under way.
NoCrawl ==
    /\ urls = 0
    /\ api_key = FALSE
    /\ max_concurrent = 0
    /\ status_callback = "none"
    /\ store_available = FALSE
    /\ pc = "idle"
    /\ status = CrawlStatus(0)
    /\ semaphore = 0
    /\ unit = <<>>
    /\ results = <<>>
    /\ fetched = <<>>
    /\ page = <<>>
    /\ lastChunk = NoChunk
    /\ cbLog = <<>>

\* crawl_parallel up to the gather: the early returns, init_collection (which
\* raises when neither store can be built), the semaphore and the creation of
\* one task per URL.
Start ==
    /\ pc = "call"
    /\ UNCHANGED <<storeVars, chunkVars, inputs, results, fetched, page,
                   lastChunk, cbLog>>
    /\ IF urls = 0
       THEN /\ status' = EmptyCrawlResult
            /\ pc' = "returned"
            /\ UNCHANGED <<semaphore, unit>>
       ELSE IF ~api_key
       THEN /\ status' = NoKeyResult(CrawlStatus(urls))
            /\ pc' = "returned"
            /\ UNCHANGED <<semaphore, unit>>
       ELSE IF init_collection(store_available) = "raises"
       THEN /\ status' = CrawlStatus(urls)
            /\ pc' = "raised"
            /\ UNCHANGED <<semaphore, unit>>
       ELSE /\ status' = CrawlStatus(urls)
            /\ semaphore' = max_concurrent
            /\ unit' = [u \in Units |-> Idle("waiting")]
            /\ pc' = "gather"

\* Mutant of FinishUnit: a unit that failed is put back in the queue.
FinishUnit_Requeues(u, st, ok) ==
    LET st2 == IF ok THEN RecordSuccess(st) ELSE RecordFailure(st, u) IN
    /\ status' = st2
    /\ results' = [results EXCEPT ![u] =
                     IF CallbackOutcome(status_callback) = "escaped"
                     THEN "exception"
                     ELSE IF ok THEN "True" ELSE "False"]
    /\ cbLog' = Notify(cbLog, st2, status_callback)
    /\ unit' = [unit EXCEPT ![u] = Idle(IF ok THEN "done" ELSE "waiting")]

\* Mutant of FinishUnit: a unit that ends marks the whole crawl complete.
FinishUnit_MarksComplete(u, st, ok) ==
    LET st2 == IF ok THEN RecordSuccess(st) ELSE RecordFailure(st, u) IN
    /\ status' = MarkComplete(st2)
    /\ results' = [results EXCEPT ![u] =
                     IF CallbackOutcome(status_callback) = "escaped"
                     THEN "exception"
                     ELSE IF ok THEN "True" ELSE "False"]
    /\ cbLog' = Notify(cbLog, MarkComplete(st2), status_callback)
    /\ unit' = [unit EXCEPT ![u] = Idle("done")]

\* The end of process_url for unit u once crawl_url's try block has ended,
\* normally (ok) or in its except block: the status update and return value of
\* crawl_url, then the callback.  An exception leaving the callback's try
\* would end the task with that exception (gather keeps it as the result).
FinishUnit(u, st, ok) ==
    LET st2 == IF ok THEN RecordSuccess(st) ELSE RecordFailure(st, u) IN
    /\ status' = st2
    /\ results' = [results EXCEPT ![u] =
                     IF CallbackOutcome(status_callback) = "escaped"
                     THEN "exception"
                     ELSE IF ok THEN "True" ELSE "False"]
    /\ cbLog' = Notify(cbLog, st2, status_callback)
    /\ unit' = [unit EXCEPT ![u] = Idle("done")]

\* process_url acquires the semaphore (tasks are admitted in list order) and
\* crawl_url runs up to its first suspension: the blocking fetch,
\* normalisation and chunking.  A unit whose fetch raises, or whose page has
\* no chunk, runs to its end, callback and release included, without
\* suspending.
Admit(u) ==
    /\ pc = "gather"
    /\ unit[u].pc = "waiting"
    /\ \A v \in Units : v < u => unit[v].pc # "waiting"
    /\ CanAcquire(semaphore)
    /\ fetched' = [fetched EXCEPT ![u] = @ + 1]
    /\ UNCHANGED <<storeVars, chunkVars, inputs, pc, lastChunk>>
    /\ \E outcome \in FetchOutcomes, n \in 0..MaxChunks :
          /\ page' = [page EXCEPT ![u] = outcome]
          /\ IF outcome = "ok" /\ n > 0
             THEN /\ status' = MarkStarted(status, u)
                  /\ unit' = [unit EXCEPT ![u] =
                                [pc |-> "title", nchunks |-> n, i |-> 0,
                                 extracted |-> <<>>]]
                  /\ semaphore' = Acquire(semaphore)
                  /\ UNCHANGED <<results, cbLog>>
             ELSE /\ (outcome # "ok" => n = 0)
                  /\ FinishUnit(u, MarkStarted(status, u), outcome = "ok")
                  /\ semaphore' = Release(Acquire(semaphore))

\* The chat completion of get_title_and_summary returns or raises; process_chunk
\* goes on to the embedding call.
TitleReturn(u) ==
    /\ pc = "gather"
    /\ unit[u].pc = "title"
    /\ \E resp \in TitleResponses :
          unit' = [unit EXCEPT ![u].pc = "embed",
                               ![u].extracted = get_title_and_summary(resp)]
    /\ UNCHANGED <<storeVars, chunkVars, inputs, pc, status, semaphore, results,
                   fetched, page, lastChunk, cbLog>>

\* Mutant of EmbedReturn: the loop goes on to the chunk after the next one.
EmbedReturn_SkipsChunk(u) ==
    /\ pc = "gather"
    /\ unit[u].pc = "embed"
    /\ UNCHANGED <<storeVars, chunkVars, inputs, pc, fetched, page>>
    /\ \E embResp \in EmbedResponses, addResp \in AddResponses :
          LET body == LoopBody(u, unit[u].i, unit[u].extracted, embResp, addResp) IN
          /\ lastChunk' = body
          /\ IF body.escaped
             THEN /\ FinishUnit(u, status, FALSE)
                  /\ semaphore' = Release(semaphore)
             ELSE IF unit[u].i + 1 < unit[u].nchunks
             THEN /\ unit' = [unit EXCEPT ![u].pc = "title", ![u].i = @ + 2,
                                          ![u].extracted = <<>>]
                  /\ UNCHANGED <<status, semaphore, results, cbLog>>
             ELSE /\ FinishUnit(u, status, TRUE)
                  /\ semaphore' = Release(semaphore)

\* The embedding call returns or raises; the chunk is built and inserted.  The
\* loop then goes on to the next chunk, or the unit finishes; an exception
\* leaving the loop body would land in crawl_url's except block.
EmbedReturn(u) ==
    /\ pc = "gather"
    /\ unit[u].pc = "embed"
    /\ UNCHANGED <<storeVars, chunkVars, inputs, pc, fetched, page>>
    /\ \E embResp \in EmbedResponses, addResp \in AddResponses :
          LET body == LoopBody(u, unit[u].i, unit[u].extracted, embResp, addResp) IN
          /\ lastChunk' = body
          /\ IF body.escaped
             THEN /\ FinishUnit(u, status, FALSE)
                  /\ semaphore' = Release(semaphore)
             ELSE IF unit[u].i + 1 < unit[u].nchunks
             THEN /\ unit' = [unit EXCEPT ![u].pc = "title", ![u].i = @ + 1,
                                          ![u].extracted = <<>>]
                  /\ UNCHANGED <<status, semaphore, results, cbLog>>
             ELSE /\ FinishUnit(u, status, TRUE)
                  /\ semaphore' = Release(semaphore)

\* gather has collected every task: the final status update and callback, and
\* the return.  An exception leaving the final callback's try would leave
\* crawl_parallel.
Finish ==
    /\ pc = "gather"
    /\ \A u \in Units : unit[u].pc = "done"
    /\ status' = MarkComplete(status)
    /\ cbLog' = Notify(cbLog, MarkComplete(status), status_callback)
    /\ pc' = IF CallbackOutcome(status_callback) = "escaped"
             THEN "raised" ELSE "returned"
    /\ UNCHANGED <<storeVars, chunkVars, inputs, semaphore, unit, results, fetched,
                   page, lastChunk>>

Next ==
    \/ Start
    \/ \E u \in Units : Admit(u)
    \/ \E u \in Units : TitleReturn(u)
    \/ \E u \in Units : EmbedReturn(u)
    \/ Finish

Spec == Init /\ [][Next]_vars

\* The event loop runs every task that can run, and every model call returns
\* or raises.
FairSpec == Spec /\ WF_vars(Next)

(***************************************************************************)
(* The fallback document store (src/simple_storage.py)                     *)
(*                                                                         *)
(* A path is the sequence of its segments ("/" separates them); the         *)
(* suffix ".txt" of a document file is left out of its last segment.  A    *)
(* Python dict is the sequence of its entries in insertion order.          *)
(***************************************************************************)
\* Bounds of the store model.
MaxIds == 2
MaxVersions == 2
MaxResults == 2

\* Ids handed to the store: ids without a separator, and the id insert_chunk
\* builds for chunk 0 of the page http://h/p, f"{chunk.url}_{chunk.chunk_number}".
PlainIds == {"a", "b"}
ChunkIds == {"http://h/p_0"}
StoreIds == PlainIds \cup ChunkIds

\* id.split("/")
Split(id) ==
    IF id = "http://h/p_0" THEN <<"http:", "", "h", "p_0">> ELSE <<id>>

\* The contents handed to add for one id: a text, a vector and a mapping.
Versions == 1..MaxVersions
Document(v) == <<"text", v>>
Embedding(v) == <<"vector", v>>
Metadata(v) == <<"metadata", v>>

directory == <<"simple_db">>
docs_dir == directory \o <<"documents">>

\* os.path.join(self.docs_dir, f"{doc_id}.txt")
doc_path(id) == docs_dir \o Split(id)

\* The directory the operating system looks a path's last segment up in
\* (empty segments, as in "//", count for nothing).
ParentDir(path) ==
    SelectSeq(SubSeq(path, 1, Len(path) - 1), LAMBDA seg : seg # "")

\* open(path, 'w') raises FileNotFoundError unless the parent directory exists.
OpenForWriteRaises(path, ds) == ParentDir(path) \notin ds

WriteFile(files, path, doc) ==
    [p \in DOMAIN files \cup {path} |-> IF p = path THEN doc ELSE files[p]]

\* initialize: both makedirs calls (the index and metadata files are created
\* when missing; a missing index reads as the empty dict).
initialize(ds) == ds \cup {directory, docs_dir}

\* The dict operations on the index.
Keys(idx) == [k \in DOMAIN idx |-> idx[k].id]
HasKey(idx, id) == \E k \in DOMAIN idx : idx[k].id = id
Lookup(idx, id) == idx[CHOOSE k \in DOMAIN idx : idx[k].id = id]
SetItem(idx, entry) ==
    IF HasKey(idx, entry.id)
    THEN [k \in DOMAIN idx |-> IF idx[k].id = entry.id THEN entry ELSE idx[k]]
    ELSE Append(idx, entry)

\* The loop of add over zip(documents, embeddings, metadatas, ids), from its
\* k-th item on: each document is written to its file, then its entry is put
\* in the in-memory index; an exception of open ends the loop.
RECURSIVE AddLoop(_, _, _, _, _)
AddLoop(items, k, files, idx, ds) ==
    IF k > Len(items)
    THEN [raised |-> FALSE, files |-> files, index |-> idx]
    ELSE LET path == doc_path(items[k].id) IN
         IF OpenForWriteRaises(path, ds)
         THEN [raised |-> TRUE, files |-> files, index |-> idx]
         ELSE AddLoop(items, k + 1,
                      WriteFile(files, path, Document(items[k].v)),
                      SetItem(idx, [id |-> items[k].id,
                                    doc_path |-> path,
                                    embedding |-> Embedding(items[k].v),
                                    metadata |-> Metadata(items[k].v)]),
                      ds)

\* The loop of get over the requested ids, from the k-th on.
RECURSIVE GetLoop(_, _, _, _, _)
GetLoop(ids, k, files, idx, acc) ==
    IF k > Len(ids) THEN acc
    ELSE IF HasKey(idx, ids[k])
    THEN LET entry == Lookup(idx, ids[k]) IN
         GetLoop(ids, k + 1, files, idx,
                 [ids |-> Append(acc.ids, ids[k]),
                  documents |-> Append(acc.documents, files[entry.doc_path]),
                  embeddings |-> Append(acc.embeddings, entry.embedding),
                  metadatas |-> Append(acc.metadatas, entry.metadata)])
    ELSE GetLoop(ids, k + 1, files, idx, acc)

NoResults == [ids |-> <<>>, documents |-> <<>>, embeddings |-> <<>>,
              metadatas |-> <<>>]

\* Mutant of get: the entries come in the order of the index.
get_IndexOrder(ids, files, idx) ==
    GetLoop(SelectSeq([k \in DOMAIN idx |-> idx[k].id],
                      LAMBDA id : \E k \in DOMAIN ids : ids[k] = id),
            1, files, idx, NoResults)

get(ids, files, idx) == GetLoop(ids, 1, files, idx, NoResults)

\* get(ids=None)
get_all(idx) == [NoResults EXCEPT !.ids = Keys(idx)]

Min(a, b) == IF a < b THEN a ELSE b

\* Mutant of query: only the entries whose embedding is the query embedding
\* are candidates.
query_Nearest(query_embeddings, n_results, include, files, idx) ==
    LET all_ids == SelectSeq([k \in DOMAIN idx |-> idx[k].id],
                             LAMBDA id : \E k \in DOMAIN idx :
                                 /\ idx[k].id = id
                                 /\ idx[k].embedding = query_embeddings[1])
        result_count == Min(n_results, Len(all_ids))
        result_ids == SubSeq(all_ids, 1, result_count)
    IN  [ids |-> <<result_ids>>,
         documents |-> << <<>> >>,
         metadatas |-> << <<>> >>,
         distances |-> <<[k \in 1..result_count |-> "1.0"]>>]

\* query: the first n_results ids of the index, whatever the query embedding.
query(query_embeddings, n_results, include, files, idx) ==
    LET all_ids == Keys(idx)
        result_count == Min(n_results, Len(all_ids))
        result_ids == SubSeq(all_ids, 1, result_count)
    IN  [ids |-> <<result_ids>>,
         documents |->
             IF "documents" \in include
             THEN [k \in DOMAIN result_ids |->
                      <<files[Lookup(idx, result_ids[k]).doc_path]>>]
             ELSE << <<>> >>,
         metadatas |->
             IF "metadatas" \in include
             THEN [k \in DOMAIN result_ids |->
                      <<Lookup(idx, result_ids[k]).metadata>>]
             ELSE << <<>> >>,
         distances |-> <<[k \in 1..result_count |-> "1.0"]>>]

count(idx) == Len(idx)

\* Mutant of reset: the directories are not built again.
reset_NoInitialize(ds) == [dirs |-> {}, docfiles |-> <<>>, index |-> <<>>]

\* reset: rmtree of the directory, then initialize.
reset(ds) == [dirs |-> initialize({}), docfiles |-> <<>>, index |-> <<>>]

(***************************************************************************)
(* The store selection (src/db.py) and the calls on the fallback store     *)
(***************************************************************************)
SetupOutcomes == {"ok", "raises"}

\* Mutant of InitCollectionResult: the flag is set before chromadb is tried
\* and never taken back.
InitCollectionResult_FlagFirst(primary, fallback) ==
    IF primary = "ok" THEN [returned |-> "chromadb", flag |-> "True"]
    ELSE IF fallback = "ok" THEN [returned |-> "simple", flag |-> "True"]
    ELSE [returned |-> "raised", flag |-> "True"]

\* init_collection: the chromadb collection when setting it up raises
\* nothing, else the fallback store; the flag is set just before either
\* return, and building the fallback is outside any try.
InitCollectionResult(primary, fallback) ==
    IF primary = "ok" THEN [returned |-> "chromadb", flag |-> "True"]
    ELSE IF fallback = "ok" THEN [returned |-> "simple", flag |-> "False"]
    ELSE [returned |-> "raised", flag |-> "False"]

InitCollection ==
    /\ \E primary \in SetupOutcomes, fallback \in SetupOutcomes :
          LET r == InitCollectionResult(primary, fallback) IN
          /\ using_chromadb' = r.flag
          /\ collection' = IF r.returned = "raised" THEN "none" ELSE r.returned
          /\ dirs' = IF r.returned = "simple" THEN initialize(dirs) ELSE dirs
          /\ ret' = [op |-> "init_collection", primary |-> primary,
                     fallback |-> IF primary = "ok" THEN "not attempted"
                                  ELSE fallback,
                     result |-> r.returned]
    /\ UNCHANGED <<crawlVars, chunkVars, docfiles, index, added>>

Lists(S, n) == UNION {[1..k -> S] : k \in 0..n}

\* insert_chunk hands add lists of one element.
Batches == {<<item>> : item \in [id : StoreIds, v : Versions]}

Add ==
    /\ collection = "simple"
    /\ \E items \in Batches :
          LET r == AddLoop(items, 1, docfiles, index, dirs) IN
          /\ docfiles' = r.files
          /\ index' = IF r.raised THEN index ELSE r.index
          /\ added' = added \cup {items[k].id : k \in DOMAIN items}
          /\ ret' = [op |-> "add", items |-> items, raised |-> r.raised]
    /\ UNCHANGED <<crawlVars, chunkVars, dirs, collection, using_chromadb>>

Get ==
    /\ collection = "simple"
    /\ \E ids \in Lists(StoreIds, MaxIds) :
          ret' = [op |-> "get", ids |-> ids, result |-> get(ids, docfiles, index)]
    /\ UNCHANGED <<crawlVars, chunkVars, dirs, docfiles, index, added,
                   collection, using_chromadb>>

GetAll ==
    /\ collection = "simple"
    /\ ret' = [op |-> "get_all", result |-> get_all(index)]
    /\ UNCHANGED <<crawlVars, chunkVars, dirs, docfiles, index, added,
                   collection, using_chromadb>>

Query ==
    /\ collection = "simple"
    /\ \E q \in Versions, n \in 0..MaxResults,
          include \in SUBSET {"documents", "metadatas"} :
          ret' = [op |-> "query", query_embeddings |-> <<Embedding(q)>>,
                  n_results |-> n, include |-> include,
                  result |-> query(<<Embedding(q)>>, n, include, docfiles, index)]
    /\ UNCHANGED <<crawlVars, chunkVars, dirs, docfiles, index, added,
                   collection, using_chromadb>>

Count ==
    /\ collection = "simple"
    /\ ret' = [op |-> "count", result |-> count(index)]
    /\ UNCHANGED <<crawlVars, chunkVars, dirs, docfiles, index, added,
                   collection, using_chromadb>>

Reset ==
    /\ collection = "simple"
    /\ LET r == reset(dirs) IN
          /\ dirs' = r.dirs
          /\ docfiles' = r.docfiles
          /\ index' = r.index
    /\ added' = {}
    /\ ret' = [op |-> "reset", before |-> count(index)]
    /\ UNCHANGED <<crawlVars, chunkVars, collection, using_chromadb>>

\* n_results of the query made by retrieve_company_info.
N_RESULTS == 5

\* zip of two lists: the pairs up to the end of the shorter one.
Zip(xs, ys) ==
    [k \in 1..Min(Len(xs), Len(ys)) |-> [doc |-> xs[k], metadata |-> ys[k]]]

\* retrieve_company_info (src/company_profile.py) on the result of its
\* query: results["documents"][0] raises IndexError when "documents" is an
\* empty list, and the except block turns every exception into the answer
\* "Error retrieving information: ..."; an empty results["documents"][0]
\* gives "No relevant company information found."; otherwise one formatted
\* chunk per pair of zip(results["documents"][0], results["metadatas"][0])
\* (the metadata of the model are taken to have the keys the format reads).
retrieve_company_info(query_results) ==
    IF Len(query_results.documents) = 0 \/ Len(query_results.metadatas) = 0
    THEN [answer |-> "Error retrieving information", chunks |-> <<>>]
    ELSE IF query_results.documents[1] = <<>>
    THEN [answer |-> "No relevant company information found.",
          chunks |-> <<>>]
    ELSE [answer |-> "formatted chunks",
          chunks |-> Zip(query_results.documents[1],
                         query_results.metadatas[1])]

\* One call of retrieve_company_info with the fallback store as collection.
RetrieveCompanyInfo ==
    /\ collection = "simple"
    /\ \E q \in Versions :
          LET query_results ==
                  query(<<Embedding(q)>>, N_RESULTS,
                        {"documents", "metadatas"}, docfiles, index)
          IN  ret' = [op |-> "retrieve_company_info",
                      results |-> query_results,
                      result |-> retrieve_company_info(query_results)]
    /\ UNCHANGED <<crawlVars, chunkVars, dirs, docfiles, index, added,
                   collection, using_chromadb>>

StoreInit == NoCrawl /\ NoChunking /\ NoStore

StoreNext ==
    \/ InitCollection
    \/ Add
    \/ Get
    \/ GetAll
    \/ Query
    \/ Count
    \/ Reset
    \/ RetrieveCompanyInfo

StoreSpec == StoreInit /\ [][StoreNext]_vars

(***************************************************************************)
(* chunk_text (src/crawl.py)                                               *)
(*                                                                         *)
(* A text is the sequence of its characters; positions are counted from 0  *)
(* as in Python.  The backquote character is written "^".                  *)
(***************************************************************************)
\* Bounds of the chunking model.
MaxTokens == 3
MaxSize == 5

\* The texts are built from these pieces: a letter, the two kinds of
\* whitespace, a full stop, and the three markers chunk_text looks for (a
\* code fence, a blank line, the end of a sentence).
Fence == <<"^", "^", "^">>

Tokens == {<<"a">>, <<" ">>, <<"\n">>, <<".">>, Fence, <<"\n", "\n">>,
           <<".", " ">>}

RECURSIVE Concat(_)
Concat(pieces) ==
    IF pieces = <<>> THEN <<>> ELSE Head(pieces) \o Concat(Tail(pieces))

Texts == {Concat(pieces) : pieces \in UNION {[1..n -> Tokens] : n \in 0..MaxTokens}}

\* chunk_size: every size up to the bound, and a negative one.
Sizes == {0 - 1} \cup (0..MaxSize)

Max(a, b) == IF a > b THEN a ELSE b

\* s[i:j] of Python: a negative position counts from the end, and positions
\* beyond either end are clipped.
Clip(i, n) == IF i < 0 THEN Max(i + n, 0) ELSE Min(i, n)

\* A slice that takes one character more than asked at its right end (the
\* windows of successive passes would overlap).
Slice_Overlapping(s, i, j) ==
    SubSeq(s, Clip(i, Len(s)) + 1, Clip(IF j < 0 THEN j ELSE j + 1, Len(s)))

Slice(s, i, j) == SubSeq(s, Clip(i, Len(s)) + 1, Clip(j, Len(s)))

Whitespace == {" ", "\n"}

\* s.strip()
RECURSIVE lstrip(_)
lstrip(s) ==
    IF s # <<>> /\ Head(s) \in Whitespace THEN lstrip(Tail(s)) ELSE s

RECURSIVE rstrip(_)
rstrip(s) ==
    IF s # <<>> /\ s[Len(s)] \in Whitespace
    THEN rstrip(SubSeq(s, 1, Len(s) - 1)) ELSE s

strip(s) == rstrip(lstrip(s))

\* s.rfind(sub): the highest position where sub begins in s, or -1.
rfind(s, sub) ==
    LET found == {i \in 0..(Len(s) - Len(sub)) :
                     SubSeq(s, i + 1, i + Len(sub)) = sub}
    IN  IF found = {} THEN 0 - 1
        ELSE CHOOSE i \in found : \A j \in found : j <= i

\* x > chunk_size * 0.3
PastThreshold(x, size) == 10 * x > 3 * size

\* The end of the window after the search for a break in chunk = text[start:end].
BreakEnd(chunk, from, end, size) ==
    LET code_block == rfind(chunk, Fence)
        last_break == rfind(chunk, <<"\n", "\n">>)
        last_period == rfind(chunk, <<".", " ">>)
    IN  IF code_block # 0 - 1 /\ PastThreshold(code_block, size)
        THEN from + code_block
        ELSE IF last_break # 0 - 1
        THEN IF PastThreshold(last_break, size) THEN from + last_break ELSE end
        ELSE IF last_period # 0 - 1
        THEN IF PastThreshold(last_period, size) THEN from + last_period + 1
             ELSE end
        ELSE end

\* Mutant of Advance: the cursor goes to the end of the window.
Advance_ToEnd(from, end) == end

\* start = max(start + 1, end)
Advance(from, end) == Max(from + 1, end)

\* Mutant of LoopPass: the last window too is appended only when it is not
\* empty.
LoopPass_SkipsEmptyLast(s, size, from, acc) ==
    LET end == from + size IN
    IF end >= Len(s)
    THEN [break |-> TRUE, start |-> from,
          chunks |-> IF strip(Slice(s, from, Len(s))) # <<>>
                     THEN Append(acc, strip(Slice(s, from, Len(s))))
                     ELSE acc]
    ELSE LET end2 == BreakEnd(Slice(s, from, end), from, end, size)
             chunk == strip(Slice(s, from, end2))
         IN  [break |-> FALSE, start |-> Advance(from, end2),
              chunks |-> IF chunk # <<>> THEN Append(acc, chunk) ELSE acc]

\* One pass of the loop body from the cursor: the last window ends the
\* loop, any other window appends its stripped chunk when it is not empty and
\* moves the cursor.
LoopPass(s, size, from, acc) ==
    LET end == from + size IN
    IF end >= Len(s)
    THEN [break |-> TRUE, start |-> from,
          chunks |-> Append(acc, strip(Slice(s, from, Len(s))))]
    ELSE LET end2 == BreakEnd(Slice(s, from, end), from, end, size)
             chunk == strip(Slice(s, from, end2))
         IN  [break |-> FALSE, start |-> Advance(from, end2),
              chunks |-> IF chunk # <<>> THEN Append(acc, chunk) ELSE acc]

ChunkInit ==
    /\ NoCrawl
    /\ NoStore
    /\ text \in Texts
    /\ chunk_size \in Sizes
    /\ start = 0
    /\ chunks = <<>>
    /\ at = "while"

\* The loop test holds: one pass of the body.
ChunkPass ==
    /\ at = "while"
    /\ start < Len(text)
    /\ LET r == LoopPass(text, chunk_size, start, chunks) IN
          /\ start' = r.start
          /\ chunks' = r.chunks
          /\ at' = IF r.break THEN "returned" ELSE "while"
    /\ UNCHANGED <<crawlVars, storeVars, text, chunk_size>>

\* The loop test fails: chunk_text returns the list.
ChunkReturn ==
    /\ at = "while"
    /\ ~(start < Len(text))
    /\ at' = "returned"
    /\ UNCHANGED <<crawlVars, storeVars, text, chunk_size, start, chunks>>

ChunkNext == ChunkPass \/ ChunkReturn

ChunkSpec == ChunkInit /\ [][ChunkNext]_vars

\* The interpreter runs the loop on.
ChunkFairSpec == ChunkSpec /\ WF_vars(ChunkNext)

(***************************************************************************)
(* Properties                                                              *)
(***************************************************************************)
InFlight == {u \in Units : unit[u].pc \in {"title", "embed"}}

Dispatching == urls > 0 /\ api_key /\ store_available

Counted(st) ==
    /\ st.processed_urls = st.successful_urls + st.failed_urls
    /\ st.processed_urls <= st.total_urls

\* C1: in every state in which another unit or the callback can run, and in
\* every status the callback is handed, processed_urls = successful_urls +
\* failed_urls and processed_urls <= total_urls.
C1_StatusInvariant ==
    /\ Counted(status)
    /\ \A k \in DOMAIN cbLog : Counted(cbLog[k])

\* C1 witness: a crawl under way with one URL failed, another unit in flight
\* and the callback having observed the failure.
C1_Witness ==
    /\ pc = "gather" /\ max_concurrent = 2
    /\ status.failed_urls = 1 /\ InFlight # {}
    /\ Len(cbLog) = 1

\* C2: with max_concurrent >= 1 never more than max_concurrent units are in
\* flight: the units in flight and the free slots of the semaphore add up to
\* max_concurrent, and the free slots never go below zero.
C2_BoundedInFlight ==
    (max_concurrent >= 1 /\ pc = "gather") =>
        /\ Cardinality(InFlight) <= max_concurrent
        /\ semaphore >= 0
        /\ semaphore + Cardinality(InFlight) = max_concurrent

\* C2 witness: max_concurrent = 1, one unit in flight, the next one waiting.
C2_Witness ==
    /\ pc = "gather" /\ max_concurrent = 1 /\ urls = 2
    /\ unit[1].pc = "embed" /\ unit[2].pc = "waiting"

\* C3: a crawl of a non-empty list with credential, store and
\* max_concurrent >= 1 eventually returns a complete status with every URL
\* processed, whichever URLs fail.
C3_EventuallyComplete ==
    (Dispatching /\ max_concurrent >= 1) ~>
        (/\ pc = "returned" /\ status.is_complete
         /\ status.total_urls = urls
         /\ status.processed_urls = status.total_urls)

\* C3 witness: such a crawl has returned with one URL failed and one not.
C3_Witness ==
    /\ pc = "returned" /\ Dispatching /\ max_concurrent = 1 /\ urls = 2
    /\ status.is_complete /\ status.processed_urls = 2
    /\ status.failed_urls = 1

\* C4 (as claimed): a crawl of an empty list returns total_urls = 0 and
\* is_complete = true, with no fetch, no model call, no store initialisation.
C4_EmptyListComplete ==
    (urls = 0 /\ pc # "call") =>
        /\ pc = "returned"
        /\ status.total_urls = 0
        /\ status.is_complete
        /\ lastChunk = NoChunk

\* C5: a crawl of a non-empty list without credential returns a status with
\* is_complete = true, last_error set and all three counters 0; no unit was
\* dispatched and nothing was fetched.
C5_NoCredential ==
    (urls > 0 /\ ~api_key /\ pc # "call") =>
        /\ pc = "returned"
        /\ status.is_complete
        /\ status.last_error # <<>>
        /\ status.processed_urls = 0
        /\ status.successful_urls = 0
        /\ status.failed_urls = 0
        /\ \A u \in Units : unit[u].pc = "new" /\ fetched[u] = 0

\* C5 witness: a crawl of two URLs without credential has returned.
C5_Witness == pc = "returned" /\ urls = 2 /\ ~api_key

\* C6 (as claimed): when the store cannot be initialised crawl_parallel does
\* not raise but returns a status with is_complete = true and last_error set,
\* zero URLs processed.
C6_StoreFailureReturned ==
    (urls > 0 /\ api_key /\ ~store_available /\ pc # "call") =>
        /\ pc = "returned"
        /\ status.is_complete
        /\ status.last_error # <<>>
        /\ status.processed_urls = 0

\* C7: when a crawl that dispatched its units returns, every URL is counted
\* once: successful_urls is the number of URLs whose fetch and processing did
\* not raise, failed_urls the number of the others, processed_urls =
\* total_urls = n, is_complete holds, and last_error is set when a URL failed.
C7_FinalCounts ==
    (pc = "returned" /\ Dispatching) =>
        /\ status.successful_urls = Cardinality({u \in Units : page[u] = "ok"})
        /\ status.failed_urls = Cardinality({u \in Units : page[u] = "raises"})
        /\ status.processed_urls = urls
        /\ status.total_urls = urls
        /\ status.is_complete
        /\ (status.failed_urls >= 1 => status.last_error # <<>>)
        /\ \A u \in Units :
              results[u] = IF page[u] = "ok" THEN "True" ELSE "False"

\* C7 witness: one good and one unreachable URL with max_concurrent = 1 give
\* 2/2/1/1.
C7_Witness ==
    /\ pc = "returned" /\ urls = 2 /\ max_concurrent = 1
    /\ page[1] = "ok" /\ page[2] = "raises"
    /\ status.total_urls = 2 /\ status.processed_urls = 2
    /\ status.successful_urls = 1 /\ status.failed_urls = 1
    /\ status.is_complete /\ status.last_error # <<>>

\* What C8 says of the callback's invocations once crawl_parallel is over.
CallbackProtocol ==
    /\ pc = "returned"
    /\ Len(cbLog) = urls + 1
    /\ \A k \in 1..urls :
          ~cbLog[k].is_complete /\ cbLog[k].processed_urls = k
    /\ cbLog[urls + 1].is_complete
    /\ cbLog[urls + 1] = status
    /\ \A u \in Units : results[u] \in {"True", "False"}

\* C8 (as claimed): whenever crawl_parallel has returned from a crawl of
\* n >= 1 URLs and a callback was supplied, the callback has been invoked n + 1 times, only the last time
\* with is_complete = true, also when it raises.
C8_CallbackAlways ==
    (status_callback # "none" /\ urls > 0 /\ pc = "returned") => CallbackProtocol

\* C8 (amended): the same for a crawl that dispatched its units (non-empty
\* list, credential, store); while the units run the callback has been
\* invoked once per processed URL; without a callback, and on the early
\* returns, nothing is invoked.
C8_CallbackWhenDispatched ==
    /\ (status_callback # "none" /\ Dispatching /\ pc \notin {"call", "gather"})
          => CallbackProtocol
    /\ (status_callback # "none" /\ pc = "gather")
          => Len(cbLog) = status.processed_urls
    /\ (status_callback = "none" => cbLog = <<>>)
    /\ ((pc = "returned" /\ ~Dispatching) => cbLog = <<>>)

\* C8 witness: a crawl of two URLs with a callback that raises has returned.
C8_Witness ==
    /\ pc = "returned" /\ Dispatching /\ urls = 2
    /\ status_callback = "raises" /\ Len(cbLog) = 3

\* C9: whatever happens to one chunk of a URL (extraction, embedding or store
\* failing), that chunk's store is attempted exactly when its own title and
\* summary could be read, the loop goes on to the next chunk, after the last
\* chunk the unit finishes as successful, and no other URL's unit or result
\* changes.
C9_ChunkStep(u) ==
    /\ lastChunk'.url = u
    /\ lastChunk'.chunk_number = unit[u].i
    /\ lastChunk'.insert =
          IF ProcessChunkRaises(unit[u].extracted)
          THEN "not attempted" ELSE "attempted"
    /\ IF unit[u].i + 1 < unit[u].nchunks
       THEN /\ unit'[u].pc = "title"
            /\ unit'[u].i = unit[u].i + 1
            /\ unit'[u].nchunks = unit[u].nchunks
            /\ results'[u] = "pending"
       ELSE /\ unit'[u].pc = "done"
            /\ results'[u] = "True"
            /\ status'.successful_urls = status.successful_urls + 1
            /\ status'.failed_urls = status.failed_urls
    /\ \A v \in Units \ {u} :
          unit'[v] = unit[v] /\ results'[v] = results[v] /\ page'[v] = page[v]

C9_ChunkIsolation ==
    [][\A u \in Units :
          (unit[u].pc = "embed" /\ unit'[u] # unit[u]) => C9_ChunkStep(u)]_vars

\* C9 witness: the title of chunk 0 of a URL could not be read, so that chunk
\* was dropped, and the same unit is extracting chunk 1.
C9_Witness ==
    /\ lastChunk.url # 0
    /\ lastChunk.chunk_number = 0
    /\ lastChunk.insert = "not attempted"
    /\ unit[lastChunk.url].pc = "title" /\ unit[lastChunk.url].i = 1

EmbedFailed(c) ==
    c.url # 0 /\ c.insert = "attempted" /\ c.embedResp = "raises"

\* C10: a failed embedding call never keeps a chunk from the store: the
\* chunk is handed to add under its own id with the zero vector of length
\* 1536 as embedding, no exception leaves the loop body, and the URL of such
\* a chunk finishes as successful.
C10_AfterEmbedFailure ==
    EmbedFailed(lastChunk) =>
        /\ ~lastChunk.escaped
        /\ lastChunk.embedding = [len |-> 1536, values |-> "zeros"]
        /\ (unit[lastChunk.url].pc = "done") =>
              /\ results[lastChunk.url] = "True"
              /\ status.successful_urls >= 1

C10_EmbedStep(u) ==
    ~ProcessChunkRaises(unit[u].extracted) =>
        /\ lastChunk'.insert = "attempted"
        /\ lastChunk'.id = <<u, unit[u].i>>
        /\ lastChunk'.embedding.len = 1536
        /\ (lastChunk'.embedding.values = "zeros") = EmbedFailed(lastChunk')

C10_ZeroVectorStored ==
    /\ []C10_AfterEmbedFailure
    /\ [][\A u \in Units :
            (unit[u].pc = "embed" /\ unit'[u] # unit[u]) => C10_EmbedStep(u)]_vars

\* C10 witness: the last chunk of a URL met a failed embedding call, went to
\* the store with a vector of length 1536, and its URL finished as successful.
C10_Witness ==
    /\ EmbedFailed(lastChunk)
    /\ lastChunk.embedding.len = 1536
    /\ unit[lastChunk.url].pc = "done"
    /\ results[lastChunk.url] = "True"

\* C11: whatever the chat completion does (raises, returns text that does not
\* decode, returns JSON lacking 'title' or 'summary'), the mapping returned by
\* get_title_and_summary holds both keys, so every chunk of a fetched page
\* reaches the store with a title and a summary.
C11_TitleAndSummaryPresent ==
    /\ \A u \in Units :
          unit[u].pc = "embed" =>
              {"title", "summary"} \subseteq DOMAIN unit[u].extracted
    /\ lastChunk.url # 0 => lastChunk.insert = "attempted"

\* C12: in the fallback store, for every chunk id the pipeline produces (the
\* URL, '_' and the chunk number), add of one text, vector and metadata under
\* that id followed by get of that id returns exactly that id with the same
\* text, vector and metadata.
C12_AddThenGet ==
    [][(/\ ret.op = "add"
        /\ ret.items[1].id \in ChunkIds
        /\ ret'.op = "get"
        /\ ret'.ids = <<ret.items[1].id>>)
       => ret'.result = [ids |-> <<ret.items[1].id>>,
                         documents |-> <<Document(ret.items[1].v)>>,
                         embeddings |-> <<Embedding(ret.items[1].v)>>,
                         metadatas |-> <<Metadata(ret.items[1].v)>>]]_vars

\* C13: count() of the fallback store is the number of distinct ids handed
\* to add since the last reset.
C13_CountDistinctAdded ==
    /\ count(index) = Cardinality(added)
    /\ ret.op = "count" => ret.result = Cardinality(added)

StoredIds == {index[k].id : k \in DOMAIN index}

IsStored(id) == id \in StoredIds

StoredEntry(id) == index[CHOOSE k \in DOMAIN index : index[k].id = id]

\* C14: get(ids=None) returns every stored id, each once, with empty
\* documents, embeddings and metadatas; get(ids=L) returns exactly the
\* entries of L that are stored, in the order of L, skipping the unknown
\* ids, in four arrays of one length whose k-th elements belong to the k-th
\* returned id.
C14_GetContract ==
    /\ ret.op = "get_all" =>
          /\ {ret.result.ids[k] : k \in DOMAIN ret.result.ids} = StoredIds
          /\ Len(ret.result.ids) = Cardinality(StoredIds)
          /\ ret.result.documents = <<>>
          /\ ret.result.embeddings = <<>>
          /\ ret.result.metadatas = <<>>
    /\ ret.op = "get" =>
          LET r == ret.result IN
          /\ r.ids = SelectSeq(ret.ids, IsStored)
          /\ Len(r.documents) = Len(r.ids)
          /\ Len(r.embeddings) = Len(r.ids)
          /\ Len(r.metadatas) = Len(r.ids)
          /\ \A k \in DOMAIN r.ids :
                /\ r.documents[k] = docfiles[StoredEntry(r.ids[k]).doc_path]
                /\ r.embeddings[k] = StoredEntry(r.ids[k]).embedding
                /\ r.metadatas[k] = StoredEntry(r.ids[k]).metadata

\* C14 witness: get was asked for two stored ids in the reverse of the order
\* they were added in, and returned both with different contents.
C14_Witness ==
    /\ ret.op = "get"
    /\ ret.ids = <<"b", "a">>
    /\ Len(index) = 2 /\ index[1].id = "a" /\ index[2].id = "b"
    /\ ret.result.ids = <<"b", "a">>
    /\ ret.result.documents[1] # ret.result.documents[2]

\* C15: query of the fallback store returns a prefix of the stored ids, of
\* length min(n_results, count()), each with distance 1.0, whatever the query
\* embedding is, and leaves the store as it was.
C15_QueryResult ==
    ret.op = "query" =>
        LET m == IF ret.n_results < count(index) THEN ret.n_results
                 ELSE count(index)
            r == ret.result
        IN  /\ Len(r.ids) = 1
            /\ Len(r.ids[1]) = m
            /\ \A k \in 1..m : r.ids[1][k] = index[k].id
            /\ r.distances = <<[k \in 1..m |-> "1.0"]>>
            /\ \A q \in Versions :
                  query(<<Embedding(q)>>, ret.n_results, ret.include,
                        docfiles, index) = r

C15_QueryPrefix ==
    /\ []C15_QueryResult
    /\ [][ret'.op = "query" =>
            <<dirs, docfiles, index, added>>' = <<dirs, docfiles, index, added>>]_vars

\* C15 witness: query asked for one result of a store of two, with a query
\* embedding other than the embedding of the entry it returned.
C15_Witness ==
    /\ ret.op = "query"
    /\ ret.n_results = 1
    /\ count(index) = 2
    /\ ret.result.ids = << <<index[1].id>> >>
    /\ ret.query_embeddings[1] # index[1].embedding
    /\ ret.query_embeddings[1] = index[2].embedding

StoreState == [dirs |-> dirs, docfiles |-> docfiles, index |-> index]

\* C16: reset from any state leaves count() = 0 and no id in get(None); a
\* second reset changes nothing; and an add that follows a reset stores its
\* entry as on a newly built store.
C16_AfterReset ==
    ret.op = "reset" =>
        /\ count(index) = 0
        /\ get_all(index).ids = <<>>
        /\ reset(dirs) = StoreState

C16_ResetStep ==
    /\ ret'.op = "reset" => count(index') = 0 /\ added' = {}
    /\ (ret.op = "reset" /\ ret'.op = "add") =>
          LET item == ret'.items[1] IN
          /\ ret'.raised = (item.id \notin PlainIds)
          /\ ~ret'.raised =>
                /\ count(index') = 1
                /\ get(<<item.id>>, docfiles', index') =
                      [ids |-> <<item.id>>,
                       documents |-> <<Document(item.v)>>,
                       embeddings |-> <<Embedding(item.v)>>,
                       metadatas |-> <<Metadata(item.v)>>]

C16_ResetContract == []C16_AfterReset /\ [][C16_ResetStep]_vars

\* C16 witness: reset has just emptied a store that held two entries.
C16_Witness ==
    /\ ret.op = "reset"
    /\ ret.before = 2
    /\ count(index) = 0
    /\ docfiles = <<>>

\* C17 as claimed: init_collection attempts the primary store first and
\* returns the fallback exactly when setting the primary up fails; when the
\* primary is set up it is returned; the flag using_chromadb is true exactly
\* when the primary was returned.
C17_FallbackIffPrimaryFails ==
    /\ (using_chromadb = "True") = (collection = "chromadb")
    /\ ret.op = "init_collection" =>
          /\ (ret.result = "simple") = (ret.primary = "raises")
          /\ (ret.result = "chromadb") = (ret.primary = "ok")

\* C17 amended: the fallback is attempted only after the primary failed and
\* is returned exactly when the primary fails and the fallback can be built;
\* when building the fallback raises too, init_collection raises, returns no
\* store and leaves the flag false.
C17_StoreSelection ==
    /\ (using_chromadb = "True") = (collection = "chromadb")
    /\ ret.op = "init_collection" =>
          /\ (ret.fallback = "not attempted") = (ret.primary = "ok")
          /\ (ret.result = "chromadb") = (ret.primary = "ok")
          /\ (ret.result = "simple") =
                (ret.primary = "raises" /\ ret.fallback = "ok")
          /\ (ret.result = "raised") =
                (ret.primary = "raises" /\ ret.fallback = "raises")
          /\ collection = IF ret.result = "raised" THEN "none" ELSE ret.result
          /\ using_chromadb = IF ret.result = "chromadb" THEN "True" ELSE "False"
          /\ ret.result = "simple" => {directory, docs_dir} \subseteq dirs

\* C17 witness: the primary failed and init_collection returned the fallback
\* store, which holds an entry of an earlier use, with the flag false.
C17_Witness ==
    /\ ret.op = "init_collection"
    /\ ret.primary = "raises"
    /\ ret.result = "simple"
    /\ collection = "simple"
    /\ using_chromadb = "False"
    /\ count(index) = 1

\* The text without its leading and trailing whitespace.
Trimmed(s) ==
    LET solid == {i \in DOMAIN s : s[i] \notin Whitespace} IN
    IF solid = {} THEN <<>>
    ELSE SubSeq(s, CHOOSE i \in solid : \A j \in solid : i <= j,
                   CHOOSE i \in solid : \A j \in solid : j <= i)

\* C18 as claimed: for every text of length at most max_size, the empty text
\* and whitespace-only texts included, chunk_text returns exactly one chunk,
\* the trimmed input.
C18_ShortTextOneChunk ==
    (at = "returned" /\ Len(text) <= chunk_size) => chunks = <<Trimmed(text)>>

\* C18 amended: for every non-empty text of length at most max_size
\* chunk_text returns exactly one chunk, the trimmed input (the empty string
\* for a whitespace-only text); for the empty text it returns no chunk.
C18_ShortNonEmptyTextOneChunk ==
    (at = "returned" /\ Len(text) <= chunk_size) =>
        chunks = IF text = <<>> THEN <<>> ELSE <<Trimmed(text)>>

\* C18 witness: a text of three characters with whitespace at both ends came
\* back from a window of three as its one trimmed chunk.
C18_Witness ==
    /\ at = "returned"
    /\ text = <<" ", "a", "\n">>
    /\ chunk_size = 3
    /\ chunks = << <<"a">> >>

\* C19: for every text and every max_size >= 1, every chunk returned is a
\* non-empty string of at most max_size characters, texts made of or ending
\* in whitespace included, and the empty text gives the empty sequence.
C19_ChunksNonEmptyAndBounded ==
    chunk_size >= 1 =>
        /\ \A k \in DOMAIN chunks :
              chunks[k] # <<>> /\ Len(chunks[k]) <= chunk_size
        /\ text = <<>> => chunks = <<>>

\* C20: chunk_text terminates for every text and every max_size: each pass
\* of the loop that does not end it moves the cursor forward by at least one
\* character, so the loop is left after at most len(text) passes.
C20_CursorAdvances ==
    (at = "while" /\ at' = "while") =>
        /\ start' >= start + 1
        /\ start' <= Max(Len(text), start + 1)

C20_Terminates ==
    /\ <>(at = "returned")
    /\ [][C20_CursorAdvances]_vars
    /\ [](start <= Max(Len(text), 1) /\ Len(chunks) <= Len(text))

\* C20 witness: a text of one character repeated, cut with a window of one
\* (no break in any window), was returned as one chunk per character.
C20_Witness ==
    /\ at = "returned"
    /\ text = <<"a", "a", "a">>
    /\ chunk_size = 1
    /\ Len(chunks) = 3

\* The positions (counted from 0, as the code counts them) at which a marker
\* occurs in a window, and the last of them (0 - 1 when there is none).
Occurrences(window, marker) ==
    {i \in 0..(Len(window) - Len(marker)) :
        \A j \in 1..Len(marker) : window[i + j] = marker[j]}

LastOccurrence(window, marker) ==
    IF Occurrences(window, marker) = {} THEN 0 - 1
    ELSE CHOOSE i \in Occurrences(window, marker) :
             \A j \in Occurrences(window, marker) : j <= i

\* A full window: the loop is at its test and max_size characters starting
\* at the cursor do not reach the end of the text.
FullWindow == at = "while" /\ chunk_size >= 1 /\ start + chunk_size < Len(text)

Window == [k \in 1..chunk_size |-> text[start + k]]

\* The split point of a window by the order of the rules: the first rule
\* whose marker has its last occurrence past 30% of the window decides.
RuleOrderSplit(window, size) ==
    LET fence == LastOccurrence(window, Fence)
        blank == LastOccurrence(window, <<"\n", "\n">>)
        period == LastOccurrence(window, <<".", " ">>)
    IN  IF 10 * fence > 3 * size THEN fence
        ELSE IF 10 * blank > 3 * size THEN blank
        ELSE IF 10 * period > 3 * size THEN period + 1
        ELSE size

\* C21: in every full window of max_size characters chunk_text splits at the
\* first applicable rule in this order: the last code fence if it lies past
\* 30% of the window, else the last blank line if past 30%, else the last
\* ". " if past 30% (the split falls after the full stop), else exactly at
\* max_size; so a window whose only blank line lies before 30% and which has
\* a ". " past 30% is split at that ". ".
C21_SplitByRuleOrder ==
    [][FullWindow => start' = start + RuleOrderSplit(Window, chunk_size)]_vars

\* The windows that have a blank line whose last occurrence is not past 30%:
\* the code takes the branch of line 64 for them and tries no later rule.
C21_BlankLineBeforeThreshold ==
    LET blank == LastOccurrence(Window, <<"\n", "\n">>)
    IN  blank # 0 - 1 /\ ~(10 * blank > 3 * chunk_size)

\* In every other full window the split point is the one of the rule order.
C21_SplitByRuleOrderUnlessBlankLine ==
    [][(FullWindow /\ ~C21_BlankLineBeforeThreshold)
          => start' = start + RuleOrderSplit(Window, chunk_size)]_vars

\* A text without any of the three markers chunk_text looks for.
NoMarkers(s) ==
    /\ Occurrences(s, Fence) = {}
    /\ Occurrences(s, <<"\n", "\n">>) = {}
    /\ Occurrences(s, <<".", " ">>) = {}

\* The characters of a text that are not whitespace, in order.
Solid(s) == SelectSeq(s, LAMBDA c : c \notin Whitespace)

\* The chunks are consecutive slices of the text: there are cut points
\* 0 = c0 <= c1 <= ... <= cm = len(text) such that chunk k is the slice
\* from c(k-1) to c(k) with the whitespace at its two ends removed.
ConsecutiveSlices(s, cs) ==
    \E cut \in [0..Len(cs) -> 0..Len(s)] :
        /\ cut[0] = 0
        /\ cut[Len(cs)] = Len(s)
        /\ \A k \in 1..Len(cs) :
              /\ cut[k - 1] <= cut[k]
              /\ cs[k] = Trimmed(SubSeq(s, cut[k - 1] + 1, cut[k]))

\* The number of windows of a size that cover a text, and the k-th of them.
WindowCount(s, size) == (Len(s) + size - 1) \div size

WindowAt(s, size, k) == SubSeq(s, (k - 1) * size + 1, Min(k * size, Len(s)))

\* The trimmed windows of a text in order, an empty one kept only when it is
\* the last (lines 56-58 append the last window without testing it).
RECURSIVE TrimmedWindows(_, _, _)
TrimmedWindows(s, size, k) ==
    IF k > WindowCount(s, size) THEN <<>>
    ELSE LET piece == Trimmed(WindowAt(s, size, k))
         IN  IF piece # <<>> \/ k = WindowCount(s, size)
             THEN <<piece>> \o TrimmedWindows(s, size, k + 1)
             ELSE TrimmedWindows(s, size, k + 1)

UnitsDispatched == pc \in {"gather", "returned", "raised"} /\ Dispatching

Uncounted == {u \in Units : unit[u].pc \in {"waiting", "title", "embed"}}

C23_IncompleteWhileUncounted ==
    UnitsDispatched =>
        /\ (Uncounted # {} => ~status.is_complete)
        /\ (status.processed_urls < status.total_urls => ~status.is_complete)
        /\ \A k \in DOMAIN cbLog :
              cbLog[k].is_complete =>
                  cbLog[k].processed_urls = cbLog[k].total_urls

C23_CompleteIsFinal == status.is_complete => status' = status

\* C23: in a crawl that dispatched units, is_complete is false in every
\* state (and in every status handed to the callback) in which some
\* dispatched URL has not yet been counted as processed, and once
\* is_complete is true no field of the status is modified again.
C23_CompleteOnlyAtEnd ==
    []C23_IncompleteWhileUncounted /\ [][C23_CompleteIsFinal]_vars

\* C23 witness: a crawl of two URLs dispatched its units, the callback saw
\* an incomplete status while a URL was uncounted, and the crawl has set
\* is_complete after both were counted.
C23_Witness ==
    /\ UnitsDispatched /\ urls = 2 /\ pc = "returned"
    /\ status.is_complete /\ status.processed_urls = 2
    /\ Len(cbLog) = 3
    /\ ~cbLog[1].is_complete /\ cbLog[1].processed_urls = 1

\* The URL in last_processed_url of a status is None or belongs to a unit
\* that has ended and been counted, given the units' positions.
LastUrlCompleted(st, un) ==
    st.last_processed_url = 0 \/ un[st.last_processed_url].pc = "done"

C24_CallbackReadsCompleted ==
    cbLog' # cbLog => LastUrlCompleted(status', unit')

\* C24: whenever the callback is handed the status or the caller gets it
\* back, last_processed_url is None or the URL of a unit that has already
\* completed (been counted in processed_urls), never the URL of a unit
\* still in flight, whatever max_concurrent is.
C24_LastUrlOfCompletedUnit ==
    /\ [][C24_CallbackReadsCompleted]_vars
    /\ [](pc = "returned" => LastUrlCompleted(status, unit))

\* With units admitted one at a time (max_concurrent <= 1) it holds: a unit
\* is admitted only after the one before it has ended.
C24_LastUrlOfCompletedUnitSequential ==
    /\ [][max_concurrent <= 1 => C24_CallbackReadsCompleted]_vars
    /\ [](pc = "returned" => LastUrlCompleted(status, unit))

\* One step as seen from unit u: from the chat completion of chunk i the unit
\* goes to the embedding of chunk i and nothing is stored; from the
\* embedding of chunk i it goes, the loop body of chunk i (the store attempt
\* included) having run in that step, to the chat completion of chunk i + 1
\* or to its end; and a unit starts with chunk 0.
C25_UnitStep(u) ==
    /\ (unit[u].pc = "waiting" /\ unit'[u] # unit[u]) =>
          \/ unit'[u].pc = "done"
          \/ unit'[u].pc = "title" /\ unit'[u].i = 0
    /\ (unit[u].pc = "title" /\ unit'[u] # unit[u]) =>
          /\ unit'[u].pc = "embed"
          /\ unit'[u].i = unit[u].i
          /\ lastChunk' = lastChunk
    /\ (unit[u].pc = "embed" /\ unit'[u] # unit[u]) =>
          /\ lastChunk'.url = u
          /\ lastChunk'.chunk_number = unit[u].i
          /\ \/ unit'[u].pc = "done"
             \/ /\ unit'[u].pc = "title"
                /\ unit'[u].i = unit[u].i + 1
                /\ unit'[u].i < unit[u].nchunks
    /\ unit[u].pc = "done" => unit'[u] = unit[u]

\* Every run of the loop body, hence every request to the store, is made by
\* the unit of its URL, for the chunk that unit is at, after that chunk's
\* embedding.
C25_StoreStep ==
    lastChunk' # lastChunk =>
        /\ lastChunk'.url \in Units
        /\ unit[lastChunk'.url].pc = "embed"
        /\ lastChunk'.chunk_number = unit[lastChunk'.url].i
        /\ \A v \in Units \ {lastChunk'.url} : unit'[v] = unit[v]
        /\ lastChunk'.insert = "attempted" =>
              lastChunk'.id = <<lastChunk'.url, lastChunk'.chunk_number>>

\* C25: within one crawl unit the chunks are handled one after the other in
\* ascending chunk_number: for each chunk the title/summary extraction, then
\* the embedding, then the store attempt, and the extraction of chunk i + 1
\* does not start before the store attempt of chunk i has finished; so the
\* store receives one URL's chunks in ascending chunk_number order under
\* every interleaving with other units.
C25_ChunksInOrder ==
    [][C25_StoreStep /\ \A u \in Units : C25_UnitStep(u)]_vars

\* C25 witness: with two units in flight, unit 1 has stored its chunk 0 and
\* waits for the extraction of its chunk 1 while unit 2 waits for an
\* embedding.
C25_Witness ==
    /\ pc = "gather" /\ urls = 2
    /\ unit[1].pc = "title" /\ unit[1].i = 1
    /\ lastChunk.url = 1 /\ lastChunk.chunk_number = 0
    /\ lastChunk.insert = "attempted"
    /\ unit[2].pc = "embed"

\* A unit is fetching from its call of requests.get (line 236) until the
\* call has returned or raised.  requests.get is a synchronous call made on
\* the thread of the event loop: it begins and ends inside the one step
\* Admit, which counts the call in `fetched` and records its outcome in
\* `page`.
Fetching(u) == fetched[u] > 0 /\ page[u] = "none"

TwoFetching == \E u, v \in Units : u # v /\ Fetching(u) /\ Fetching(v)

\* C26: the fetch of a crawl unit is a suspension point, so that in a crawl
\* with max_concurrent >= 2 and at least two URLs the second unit is
\* admitted while the first unit's fetch is outstanding: a state with two
\* units fetching at the same time is reached.
C26_TwoFetchesOverlap ==
    (pc = "gather" /\ max_concurrent >= 2 /\ urls >= 2) ~> TwoFetching

\* What the code does instead: no fetch is outstanding in any state in which
\* another task can run, and the step that makes a unit's fetch also
\* receives its outcome while every other unit stands still.
C26_FetchBlocksTheLoop ==
    /\ [](\A u \in Units : ~Fetching(u))
    /\ [][\A u \in Units :
             fetched'[u] # fetched[u] =>
                 /\ page'[u] # "none"
                 /\ \A v \in Units \ {u} : unit'[v] = unit[v]]_vars

C27_FetchedOnce ==
    \A u \in Units :
        /\ fetched[u] <= 1
        /\ fetched[u] = 1 <=> unit[u].pc \in {"title", "embed", "done"}
        /\ page[u] = "raises" =>
              /\ unit[u].pc = "done"
              /\ results[u] = "False"
              /\ status.failed_urls >= 1

C27_NeverAgain(u) ==
    /\ fetched'[u] # fetched[u] => unit[u].pc = "waiting" /\ fetched[u] = 0
    /\ unit[u].pc \in {"title", "embed", "done"} => unit'[u].pc # "waiting"
    /\ page[u] = "raises" => unit'[u] = unit[u] /\ page'[u] = page[u]

\* C27: during one crawl_parallel invocation each entry of the URL list is
\* fetched at most once: a failed fetch is recorded as a failure and never
\* retried, and no unit is dispatched (admitted to its fetch) twice.
C27_AtMostOneFetch ==
    []C27_FetchedOnce /\ [][\A u \in Units : C27_NeverAgain(u)]_vars

\* C27 witness: a crawl of two URLs has returned; the fetch of the first
\* failed and was made once, the second was fetched once and processed.
C27_Witness ==
    /\ pc = "returned" /\ urls = 2
    /\ page[1] = "raises" /\ fetched[1] = 1 /\ results[1] = "False"
    /\ page[2] = "ok" /\ fetched[2] = 1 /\ results[2] = "True"
    /\ status.failed_urls = 1 /\ status.processed_urls = 2

\* The documents and the metadata of a query result are aligned with its
\* ids: one list of each inside the outer list, as long as ids[0], holding
\* at each position the document and the metadata stored under that id.
AlignedWithIds(r) ==
    /\ Len(r.documents) = 1
    /\ Len(r.metadatas) = 1
    /\ Len(r.documents[1]) = Len(r.ids[1])
    /\ Len(r.metadatas[1]) = Len(r.ids[1])
    /\ \A k \in DOMAIN r.ids[1] :
          /\ r.documents[1][k] = docfiles[Lookup(index, r.ids[1][k]).doc_path]
          /\ r.metadatas[1][k] = Lookup(index, r.ids[1][k]).metadata

\* C28: for the fallback store, whenever query is called with "documents"
\* and "metadatas" included, documents[0] and metadatas[0] of the result
\* have the length of ids[0] and are aligned with it by position, also when
\* the store is empty; so retrieve_company_info gets one chunk per returned
\* id and answers "No relevant company information found." on an empty
\* store, not an error.
C28_QueryAlignedForRetrieval ==
    /\ (ret.op = "query" /\ {"documents", "metadatas"} \subseteq ret.include)
          => AlignedWithIds(ret.result)
    /\ ret.op = "retrieve_company_info" =>
          /\ AlignedWithIds(ret.results)
          /\ Len(ret.result.chunks) = Len(ret.results.ids[1])
          /\ index = <<>> =>
                ret.result.answer = "No relevant company information found."

\* What holds of the result instead: "documents" and "metadatas" have one
\* one-element list per returned id, in the order of the ids.
C28_OneListPerId ==
    (ret.op = "query" /\ {"documents", "metadatas"} \subseteq ret.include) =>
        LET r == ret.result IN
        /\ Len(r.documents) = Len(r.ids[1])
        /\ Len(r.metadatas) = Len(r.ids[1])
        /\ \A k \in DOMAIN r.ids[1] :
              /\ r.documents[k] = <<docfiles[Lookup(index, r.ids[1][k]).doc_path]>>
              /\ r.metadatas[k] = <<Lookup(index, r.ids[1][k]).metadata>>

\* And of retrieve_company_info: an error on the empty store, and the first
\* returned id's chunk alone on any other.
C28_RetrievalSeesFirstOnly ==
    ret.op = "retrieve_company_info" =>
        IF index = <<>>
        THEN ret.result.answer = "Error retrieving information"
        ELSE /\ ret.result.answer = "formatted chunks"
             /\ Len(ret.result.chunks) = 1
             /\ ret.result.chunks[1].doc
                   = docfiles[Lookup(index, ret.results.ids[1][1]).doc_path]

\* C29: crawl_parallel called with a non-empty URL list, a credential and
\* max_concurrent = 0 admits no unit: once the tasks exist every unit waits
\* at the semaphore and nothing can run any more (the gather never ends),
\* no URL is ever fetched or counted, and the crawl never sets is_complete
\* nor returns.
C29_ZeroSlotsNeverReturns ==
    (urls > 0 /\ api_key /\ max_concurrent = 0) =>
        /\ pc # "returned"
        /\ ~status.is_complete
        /\ status.processed_urls = 0
        /\ status.last_processed_url = 0
        /\ cbLog = <<>>
        /\ \A u \in Units : fetched[u] = 0 /\ results[u] = "pending"
        /\ (store_available /\ pc # "call") =>
              /\ pc = "gather"
              /\ semaphore = 0
              /\ \A u \in Units : unit[u].pc = "waiting"
              /\ ~ENABLED <<Next>>_vars

\* C29 witness: a crawl of two URLs with max_concurrent = 0 has created its
\* tasks and both wait.
C29_Witness ==
    /\ pc = "gather" /\ urls = 2 /\ max_concurrent = 0
    /\ unit[1].pc = "waiting" /\ unit[2].pc = "waiting"

====
